---------------------------- MODULE Spec2Model ----------------------------
(***************************************************************************)
(* Model of src/main.py: the blocklist pipeline                            *)
(*   load -> remove_duplicates -> validate_ip_addresses ->                 *)
(*   group_ips_into_subnets -> load_existing_output_file_entries ->        *)
(*   fetch_whois_info -> sort_entries_by_cidr -> write_to_output_file      *)
(* and the loop of main() over config["input_files_to_process"].           *)
(*                                                                         *)
(* Text is modelled by what the code reads of it:                          *)
(*  - an input line is [host, suffix]: host is the sequence of numbers     *)
(*    of the dotted part before the first "/", suffix is <<>> when the     *)
(*    line has no "/" and <<n>> when "/n" follows;                         *)
(*  - str(ipaddress.ip_network(..)) is [network_address, prefixlen];       *)
(*  - a comment is a sequence of one-character strings;                    *)
(*  - a line of the output file is [entry, tail], tail being the           *)
(*    characters that follow the entry, newline included.                  *)
(* Only IPv4 text is modelled, with prefix lengths written as numbers.      *)
(* Left out: a missing input file (exit(1)), the IOError branch of         *)
(* write_to_output_file, and failures of the git calls, which are logged.  *)
(***************************************************************************)
EXTENDS Integers, Sequences, FiniteSets, TLC

VARIABLES
    config,               \* the dict returned by load_config()
    output_files,         \* output path -> [exists, lines]: the files under output/
    pc,                   \* position in main() / process_lists()
    file_index,           \* index of the for loop of main() over input_files_to_process
    unique_addresses,     \* process_lists: unique_addresses
    valid_addresses,      \* process_lists: valid_addresses
    grouped_addresses,    \* process_lists: grouped_addresses (a list in set order)
    existing_entries,     \* process_lists: existing_entries, as loaded
    looked_up_addresses,  \* process_lists: looked_up_addresses
    lookups,              \* entries for which requests.get was called in this call
    entries,              \* argument of sort_entries_by_cidr
    sorted_entries,       \* process_lists: sorted_entries
    call,                 \* what the last process_lists call returned and did
    processed,            \* main: processed (read only after the loop assigned it)
    results,              \* main: the value of `processed` after each iteration
    totals,               \* main: <<total_additions, total_deletions>>
    pushed,               \* commit_and_push_changes(repo) was called in this run
    previous_call,        \* the call of process_lists before this one, on the same paths
    calls                 \* how many times process_lists was called again

vars == <<config, output_files, pc, file_index, unique_addresses, valid_addresses,
          grouped_addresses, existing_entries, looked_up_addresses, lookups,
          entries, sorted_entries, call, processed, results, totals, pushed,
          previous_call, calls>>

(***************************************************************************)
(* Generic helpers                                                         *)
(***************************************************************************)
Range(s) == {s[i] : i \in 1..Len(s)}

Min(a, b) == IF a < b THEN a ELSE b

Max(a, b) == IF a > b THEN a ELSE b

RECURSIVE Pow2(_)
Pow2(n) == IF n = 0 THEN 1 ELSE 2 * Pow2(n - 1)

\* All orders in which a list built from a set may enumerate the set.
Orders(S) == {s \in [1..Cardinality(S) -> S] : \A i, j \in 1..Cardinality(S) : s[i] = s[j] => i = j}

(***************************************************************************)
(* ipaddress                                                               *)
(***************************************************************************)
\* ipaddress.ip_address(text) succeeds: four decimal octets.
IsIpAddress(host) == Len(host) = 4 /\ \A i \in 1..4 : host[i] \in 0..255

\* "/" not in entry  =>  entry += "/32"
WithDefaultPrefix(line) ==
    IF line.suffix = <<>> THEN [host |-> line.host, suffix |-> <<32>>] ELSE line

\* ipaddress.ip_network(entry, strict=False) succeeds.
IsIpNetwork(entry) ==
    /\ IsIpAddress(entry.host)
    /\ Len(entry.suffix) = 1
    /\ entry.suffix[1] \in 0..32

\* The octet i of an address with the host bits below prefixlen cleared.
MaskOctet(octet, i, prefixlen) ==
    LET keep == Max(0, Min(8, prefixlen - 8 * (i - 1)))
    IN  octet - (octet % Pow2(8 - keep))

\* ipaddress.ip_network(entry, strict=False), for an entry it accepts.
ip_network(entry) ==
    [network_address |-> [i \in 1..4 |-> MaskOctet(entry.host[i], i, entry.suffix[1])],
     prefixlen |-> entry.suffix[1]]

\* str(network.network_address).rsplit(".", 1)[0]
first_three_octets(network) == SubSeq(network.network_address, 1, 3)

\* f"{octets}.0/24"
Slash24(octets) == [network_address |-> octets \o <<0>>, prefixlen |-> 24]

\* network_address as a number comparison: a < b
AddressLess(a, b) ==
    \E i \in 1..4 : a[i] < b[i] /\ \A j \in 1..(i - 1) : a[j] = b[j]

(***************************************************************************)
(* remove_duplicates, validate_ip_addresses                                *)
(***************************************************************************)
\* sorted(set(addresses)); nothing downstream reads the order of this list
\* before group_ips_into_subnets puts it into sets, so it is kept as a set.
remove_duplicates(addresses) == Range(addresses)

\* Keeps the lines whose text before the first "/" is an IP address.
validate_ip_addresses(addresses) == {ip \in addresses : IsIpAddress(ip.host)}

(***************************************************************************)
(* group_ips_into_subnets                                                  *)
(***************************************************************************)
\* ip_network raises ValueError for some entry: the call does not return.
GroupRaises(addresses) == \E a \in addresses : ~IsIpNetwork(WithDefaultPrefix(a))

\* The entries appended to ip_dict[octets] by the first loop (one per input entry).
HostsOf(addresses, octets) ==
    {a \in addresses :
        LET n == ip_network(WithDefaultPrefix(a))
        IN  n.prefixlen = 32 /\ first_three_octets(n) = octets}

existing_subnets(addresses) ==
    {ip_network(WithDefaultPrefix(a)) : a \in {b \in addresses : ip_network(WithDefaultPrefix(b)).prefixlen # 32}}

individual_ips(addresses) ==
    {ip_network(WithDefaultPrefix(a)) : a \in {b \in addresses : ip_network(WithDefaultPrefix(b)).prefixlen = 32}}

\* Keys of ip_dict after the second loop deleted those of the existing subnets.
IpDictKeys(addresses) ==
    {first_three_octets(n) : n \in individual_ips(addresses)}
        \ {first_three_octets(s) : s \in existing_subnets(addresses)}

\* As GroupedKeys, with a list that must exceed the threshold.
GroupedKeysMutant(addresses, threshold) ==
    {k \in IpDictKeys(addresses) : Cardinality(HostsOf(addresses, k)) > threshold}

\* The keys whose list reaches the threshold.
GroupedKeys(addresses, threshold) ==
    {k \in IpDictKeys(addresses) : Cardinality(HostsOf(addresses, k)) >= threshold}

\* The set `result` of group_ips_into_subnets, for addresses it does not raise on.
group_ips_into_subnets(addresses, threshold) ==
    LET keys == GroupedKeys(addresses, threshold)
        aggregated == {ip_network(WithDefaultPrefix(a)) :
                          a \in UNION {HostsOf(addresses, k) : k \in keys}}
    IN  {Slash24(k) : k \in keys}
            \cup existing_subnets(addresses)
            \cup (individual_ips(addresses) \ aggregated)


(***************************************************************************)
(* Dicts: a dict is the sequence of its items [entry, comment] in          *)
(* insertion order, with no entry twice.                                   *)
(***************************************************************************)
Keys(dict) == {dict[i].entry : i \in 1..Len(dict)}

Get(dict, key) == dict[CHOOSE i \in 1..Len(dict) : dict[i].entry = key].comment

\* dict[key] = value
DictSet(dict, key, value) ==
    IF key \in Keys(dict)
    THEN [i \in 1..Len(dict) |->
             IF dict[i].entry = key THEN [entry |-> key, comment |-> value] ELSE dict[i]]
    ELSE Append(dict, [entry |-> key, comment |-> value])

\* {**a, **b}
RECURSIVE DictMerge(_, _)
DictMerge(a, b) ==
    IF b = <<>> THEN a
    ELSE DictMerge(DictSet(a, Head(b).entry, Head(b).comment), Tail(b))

\* The dict without the given keys (del dict[key] for each of them).
DictWithout(dict, keys) == SelectSeq(dict, LAMBDA item : item.entry \notin keys)

(***************************************************************************)
(* sort_entries_by_cidr                                                    *)
(***************************************************************************)
\* sort_key(entry): (network.prefixlen, network.network_address)
sort_key(entry) ==
    ip_network([host |-> entry.network_address, suffix |-> <<entry.prefixlen>>])

\* As SortKeyLess, with the address compared before the prefix length.
SortKeyLessMutant(k1, k2) ==
    \/ AddressLess(k1.network_address, k2.network_address)
    \/ k1.network_address = k2.network_address /\ k1.prefixlen < k2.prefixlen

\* Tuple comparison of two sort keys: k1 < k2.
SortKeyLess(k1, k2) ==
    \/ k1.prefixlen < k2.prefixlen
    \/ k1.prefixlen = k2.prefixlen /\ AddressLess(k1.network_address, k2.network_address)

\* item put behind the last item of the sorted list that is not greater than it.
InsertSorted(sorted, item) ==
    LET after == {i \in 1..Len(sorted) :
                     ~SortKeyLess(sort_key(item.entry), sort_key(sorted[i].entry))}
        at == IF after = {} THEN 0 ELSE CHOOSE i \in after : \A j \in after : j <= i
    IN  SubSeq(sorted, 1, at) \o <<item>> \o SubSeq(sorted, at + 1, Len(sorted))

\* dict(sorted(entries.items(), key=...)): sorted() is stable.
RECURSIVE sort_entries_by_cidr(_)
sort_entries_by_cidr(dict) ==
    IF dict = <<>> THEN <<>>
    ELSE InsertSorted(sort_entries_by_cidr(SubSeq(dict, 1, Len(dict) - 1)), dict[Len(dict)])

(***************************************************************************)
(* fetch_whois_info                                                        *)
(***************************************************************************)
\* outcome[e] is what the request for e does: [ok |-> TRUE, comment |-> c] when
\* requests.get and response.json() return, [ok |-> FALSE, ..] when one raises.
LookedUp(list, existing) == {e \in Range(list) : e \notin Keys(existing)}

fetch_whois_info(list, existing, outcome) ==
    LET item(e) == [entry |-> e,
                    comment |-> IF e \in Keys(existing) THEN Get(existing, e)
                                ELSE outcome[e].comment]
    IN  SelectSeq([i \in 1..Len(list) |-> item(list[i])],
                  LAMBDA it : it.entry \in Keys(existing) \/ outcome[it.entry].ok)

(***************************************************************************)
(* Text of the output file                                                 *)
(***************************************************************************)
Digits(n) == IF n < 10 THEN 1 ELSE IF n < 100 THEN 2 ELSE 3

\* len(entry) for the text "a.b.c.d/n"
EntryLen(entry) ==
    Digits(entry.network_address[1]) + Digits(entry.network_address[2])
        + Digits(entry.network_address[3]) + Digits(entry.network_address[4])
        + 4 + Digits(entry.prefixlen)

\* text[:k] of Python, k negative included.
Slice(text, k) ==
    IF k >= 0 THEN SubSeq(text, 1, Min(k, Len(text)))
    ELSE SubSeq(text, 1, Max(Len(text) + k, 0))

\* text.strip(chars)
RECURSIVE LStrip(_, _)
LStrip(text, chars) ==
    IF text # <<>> /\ Head(text) \in chars THEN LStrip(Tail(text), chars) ELSE text

RECURSIVE RStrip(_, _)
RStrip(text, chars) ==
    IF text # <<>> /\ text[Len(text)] \in chars
    THEN RStrip(SubSeq(text, 1, Len(text) - 1), chars) ELSE text

Strip(text, chars) == RStrip(LStrip(text, chars), chars)

Whitespace == {" ", "\n"}

Ellipsis == <<".", ".", ".">>

(***************************************************************************)
(* load_existing_output_file_entries                                       *)
(***************************************************************************)
NoFile == [exists |-> FALSE, lines |-> <<>>]

\* parts[1].strip("# ").strip() if len(parts) > 1 else "", for line.split(" ", 1)
LoadComment(tail) ==
    IF tail # <<>> /\ Head(tail) = " "
    THEN Strip(Strip(Tail(tail), {"#", " "}), Whitespace)
    ELSE <<>>

RECURSIVE LoadLines(_)
LoadLines(lines) ==
    IF lines = <<>> THEN <<>>
    ELSE DictSet(LoadLines(SubSeq(lines, 1, Len(lines) - 1)),
                 lines[Len(lines)].entry, LoadComment(lines[Len(lines)].tail))

load_existing_output_file_entries(file) ==
    IF file.exists THEN LoadLines(file.lines) ELSE <<>>

(***************************************************************************)
(* write_to_output_file                                                    *)
(***************************************************************************)
\* What follows the entry on its line.
RenderTail(comment, max_comment_length) ==
    IF comment # <<>>
    THEN IF Len(comment) > max_comment_length - 2
         THEN <<" ", "#", " ">> \o Slice(comment, max_comment_length - 5) \o Ellipsis \o <<"\n">>
         ELSE <<" ", "#", " ">> \o comment \o <<"\n">>
    ELSE <<"\n">>

RenderLines(dict, cfg) ==
    [i \in 1..Len(dict) |->
        [entry |-> dict[i].entry,
         tail |-> RenderTail(dict[i].comment, cfg.fg_max_comment_length)]]

\* os.path.getsize of the written text (one byte per character).
RECURSIVE FileSize(_)
FileSize(lines) ==
    IF lines = <<>> THEN 0
    ELSE EntryLen(Head(lines).entry) + Len(Head(lines).tail) + FileSize(Tail(lines))

\* [success, file]: the value returned and the file afterwards.
write_to_output_file(dict, file, cfg) ==
    IF Len(dict) > cfg.fg_max_entries
    THEN [success |-> FALSE, file |-> file]
    ELSE LET lines == RenderLines(dict, cfg)
         IN  [success |-> FileSize(lines) <= cfg.fg_max_size_bytes,
              file |-> [exists |-> TRUE, lines |-> lines]]


(***************************************************************************)
(* Bounds and input domains                                                *)
(***************************************************************************)
MaxLines == 2

MaxCalls == 1

MaxThreshold == 3

MaxSortLen == 3

MaxGroupInput == 4

\* Lines of the input files: hosts, a subnet, "1.2.3.4/99", "1.2.3" and "".
InputLines ==
    {[host |-> <<1, 2, 3, 1>>, suffix |-> <<>>],
     [host |-> <<1, 2, 3, 2>>, suffix |-> <<>>],
     [host |-> <<9, 9, 9, 9>>, suffix |-> <<>>],
     [host |-> <<1, 2, 3, 4>>, suffix |-> <<99>>],
     [host |-> <<1, 2, 3>>, suffix |-> <<>>],
     [host |-> <<>>, suffix |-> <<>>]}

FileContents == UNION {[1..n -> InputLines] : n \in 0..MaxLines}

\* f"{country} | {region} | {isp}" for the answers (A, B, C), (A, B, "") and ({}).
WhoisComments ==
    {<<"A", " ", "|", " ", "B", " ", "|", " ", "C">>,
     <<"A", " ", "|", " ", "B", " ", "|", " ">>,
     <<"N", "o", "n", "e", " ", "|", " ", "N", "o", "n", "e", " ", "|", " ", "N", "o", "n", "e">>}

Outcomes ==
    {[ok |-> TRUE, comment |-> c] : c \in WhoisComments}
        \cup {[ok |-> FALSE, comment |-> <<>>]}

\* cfg/config.json: one usual configuration and the ones that differ from it in
\* one option, with two input files and with one.
BaseConfig ==
    [threshold_group_ips_into_subnets |-> 2,
     fg_max_entries |-> 10,
     fg_max_comment_length |-> 20,
     fg_max_size_bytes |-> 1000,
     debug |-> FALSE,
     input_files_to_process |-> <<FALSE, TRUE>>]

\* input_files_to_process holds, for each file name, 'manual' in file_name.
Configs ==
    {BaseConfig,
     [BaseConfig EXCEPT !.threshold_group_ips_into_subnets = 1],
     [BaseConfig EXCEPT !.fg_max_entries = 1],
     [BaseConfig EXCEPT !.fg_max_comment_length = 10],
     [BaseConfig EXCEPT !.fg_max_comment_length = 4],
     [BaseConfig EXCEPT !.fg_max_size_bytes = 30],
     [BaseConfig EXCEPT !.debug = TRUE],
     [BaseConfig EXCEPT !.input_files_to_process = <<FALSE, FALSE>>],
     [BaseConfig EXCEPT !.input_files_to_process = <<FALSE>>],
     [BaseConfig EXCEPT !.input_files_to_process = <<FALSE>>,
                        !.threshold_group_ips_into_subnets = 1],
     [BaseConfig EXCEPT !.input_files_to_process = <<FALSE>>, !.fg_max_entries = 1],
     [BaseConfig EXCEPT !.input_files_to_process = <<FALSE>>,
                        !.fg_max_comment_length = 10],
     [BaseConfig EXCEPT !.input_files_to_process = <<FALSE>>,
                        !.fg_max_comment_length = 4],
     [BaseConfig EXCEPT !.input_files_to_process = <<FALSE>>, !.fg_max_size_bytes = 30]}

OutputPaths == {"blocklist-industrial.txt", "blocklist-industrial-manual.txt"}

\* f"blocklist-industrial{'-manual' if 'manual' in file_name else ''}.txt"
output_file_path(manual) ==
    IF manual THEN "blocklist-industrial-manual.txt" ELSE "blocklist-industrial.txt"

CurrentPath == output_file_path(config.input_files_to_process[file_index])

(***************************************************************************)
(* State                                                                   *)
(***************************************************************************)
NoCall == [success |-> FALSE, added |-> 0, removed |-> 0, file_before |-> NoFile]

NoPreviousCall == [exists |-> FALSE, success |-> FALSE, all_found |-> FALSE, file |-> NoFile]

\* The locals of process_lists before it runs.
LocalsCleared ==
    /\ unique_addresses = {}
    /\ valid_addresses = {}
    /\ grouped_addresses = <<>>
    /\ existing_entries = <<>>
    /\ looked_up_addresses = <<>>
    /\ lookups = <<>>
    /\ entries = <<>>
    /\ sorted_entries = <<>>
    /\ call = NoCall

MainCleared ==
    /\ processed = FALSE
    /\ results = <<>>
    /\ totals = <<0, 0>>
    /\ pushed = FALSE

Init ==
    /\ config \in Configs
    /\ output_files = [p \in OutputPaths |-> NoFile]
    /\ pc = "start"
    /\ file_index = 1
    /\ LocalsCleared
    /\ MainCleared
    /\ previous_call = NoPreviousCall
    /\ calls = 0

(***************************************************************************)
(* process_lists                                                           *)
(***************************************************************************)
added_entries(grouped, existing) == Range(grouped) \ Keys(existing)

removed_entries(grouped, existing) == Keys(existing) \ Range(grouped)

\* As MergedEntries, with the removed entries left in existing_entries.
MergedEntriesMutant(grouped, existing, looked_up) == DictMerge(existing, looked_up)

\* {**existing_entries, **looked_up_addresses} after the removed entries were deleted
MergedEntries(grouped, existing, looked_up) ==
    DictMerge(DictWithout(existing, removed_entries(grouped, existing)), looked_up)

\* process_lists from the list without duplicates on. The ValueError of ip_network
\* in group_ips_into_subnets is caught nowhere: it ends the process. The list made
\* of the set `result` comes in any order; every request succeeds or raises.
ProcessListsOn(unique) ==
    LET valid == validate_ip_addresses(unique)
    IN  /\ unique_addresses' = unique
        /\ valid_addresses' = valid
        /\ IF GroupRaises(valid)
           THEN /\ pc' = "crashed"
                /\ UNCHANGED <<grouped_addresses, existing_entries, looked_up_addresses,
                               lookups, entries, sorted_entries, call, output_files>>
           ELSE \E grouped \in Orders(group_ips_into_subnets(
                                          valid, config.threshold_group_ips_into_subnets)) :
                  LET existing == load_existing_output_file_entries(output_files[CurrentPath])
                  IN  \E outcome \in [LookedUp(grouped, existing) -> Outcomes] :
                        LET looked_up == fetch_whois_info(grouped, existing, outcome)
                            merged == MergedEntries(grouped, existing, looked_up)
                            sorted == sort_entries_by_cidr(merged)
                            written == write_to_output_file(
                                           sorted, output_files[CurrentPath], config)
                        IN  /\ grouped_addresses' = grouped
                            /\ existing_entries' = existing
                            /\ lookups' = outcome
                            /\ looked_up_addresses' = looked_up
                            /\ entries' = merged
                            /\ sorted_entries' = sorted
                            /\ output_files' =
                                   [output_files EXCEPT ![CurrentPath] = written.file]
                            /\ call' =
                                   [success |-> written.success,
                                    added |-> Cardinality(added_entries(grouped, existing)),
                                    removed |-> Cardinality(removed_entries(grouped, existing)),
                                    file_before |-> output_files[CurrentPath]]
                            /\ pc' = "return"

\* process_lists(input_file_path, output_file_path, config) on what the input file holds
ProcessLists ==
    /\ pc = "call"
    /\ \E unique \in {remove_duplicates(content) : content \in FileContents} :
          ProcessListsOn(unique)
    /\ UNCHANGED <<config, file_index, processed, results, totals, pushed, previous_call,
                   calls>>

ClearLocals ==
    /\ unique_addresses' = {}
    /\ valid_addresses' = {}
    /\ grouped_addresses' = <<>>
    /\ existing_entries' = <<>>
    /\ looked_up_addresses' = <<>>
    /\ lookups' = <<>>
    /\ entries' = <<>>
    /\ sorted_entries' = <<>>
    /\ call' = NoCall

(***************************************************************************)
(* main                                                                    *)
(***************************************************************************)
\* check_for_remote_changes(repo) or config["debug"]: the run starts.
Begin ==
    /\ pc = "start"
    /\ pc' = "call"
    /\ UNCHANGED <<config, output_files, file_index, unique_addresses, valid_addresses,
                   grouped_addresses, existing_entries, looked_up_addresses, lookups,
                   entries, sorted_entries, call, processed, results, totals, pushed,
                   previous_call, calls>>

\* No remote change and not in debug mode: nothing is processed.
Skip ==
    /\ pc = "start"
    /\ ~config.debug
    /\ pc' = "skipped"
    /\ UNCHANGED <<config, output_files, file_index, unique_addresses, valid_addresses,
                   grouped_addresses, existing_entries, looked_up_addresses, lookups,
                   entries, sorted_entries, call, processed, results, totals, pushed,
                   previous_call, calls>>

\* processed, additions, deletions = process_lists(...); the totals; the next file.
Accumulate ==
    /\ pc = "return"
    /\ processed' = call.success
    /\ results' = Append(results, call.success)
    /\ totals' = <<totals[1] + call.added, totals[2] + call.removed>>
    /\ IF file_index < Len(config.input_files_to_process)
       THEN file_index' = file_index + 1 /\ pc' = "call"
       ELSE file_index' = file_index /\ pc' = "decide"
    /\ ClearLocals
    /\ UNCHANGED <<config, output_files, pushed, previous_call, calls>>

\* if processed and not config["debug"]: commit_and_push_changes(repo)
Decide ==
    /\ pc = "decide"
    /\ pushed' = (processed /\ ~config.debug)
    /\ pc' = "done"
    /\ UNCHANGED <<config, output_files, file_index, unique_addresses, valid_addresses,
                   grouped_addresses, existing_entries, looked_up_addresses, lookups,
                   entries, sorted_entries, call, processed, results, totals,
                   previous_call, calls>>

Next ==
    \/ Begin
    \/ Skip
    \/ ProcessLists
    \/ Accumulate
    \/ Decide

Spec == Init /\ [][Next]_vars

(***************************************************************************)
(* process_lists called again and again on one input and output path, as   *)
(* the scheduled runs of main() do                                         *)
(***************************************************************************)
InitCalls ==
    /\ config \in {c \in Configs : ~c.debug /\ Len(c.input_files_to_process) = 1}
    /\ output_files = [p \in OutputPaths |-> NoFile]
    /\ pc = "call"
    /\ file_index = 1
    /\ LocalsCleared
    /\ MainCleared
    /\ previous_call = NoPreviousCall
    /\ calls = 0

\* The next run finds the input file changed (or not): process_lists starts afresh.
NextCall ==
    /\ pc = "return"
    /\ calls < MaxCalls
    /\ calls' = calls + 1
    /\ ClearLocals
    /\ previous_call' = NoPreviousCall
    /\ pc' = "call"
    /\ UNCHANGED <<config, output_files, file_index, processed, results, totals, pushed>>

\* The next run finds the input file as it was: process_lists runs on the same
\* lines, the same config and the output file the call before it left.
CallAgain ==
    /\ pc = "return"
    /\ calls < MaxCalls
    /\ calls' = calls + 1
    /\ ProcessListsOn(unique_addresses)
    /\ previous_call' = [exists |-> TRUE,
                         success |-> call.success,
                         all_found |-> \A e \in DOMAIN lookups : lookups[e].ok,
                         file |-> output_files[CurrentPath]]
    /\ UNCHANGED <<config, file_index, processed, results, totals, pushed>>

NextCalls ==
    \/ ProcessLists
    \/ NextCall
    \/ CallAgain

SpecCalls == InitCalls /\ [][NextCalls]_vars

(***************************************************************************)
(* group_ips_into_subnets on its own                                       *)
(***************************************************************************)
\* Hosts of 1.2.3.0/24 and 1.2.4.0/24, written with and without "/32", and
\* subnets written with and without host bits.
GroupLines ==
    {[host |-> <<1, 2, 3, 1>>, suffix |-> <<>>],
     [host |-> <<1, 2, 3, 2>>, suffix |-> <<>>],
     [host |-> <<1, 2, 3, 3>>, suffix |-> <<>>],
     [host |-> <<1, 2, 3, 1>>, suffix |-> <<32>>],
     [host |-> <<1, 2, 4, 1>>, suffix |-> <<>>],
     [host |-> <<1, 2, 4, 200>>, suffix |-> <<>>],
     [host |-> <<1, 2, 3, 0>>, suffix |-> <<24>>],
     [host |-> <<1, 2, 4, 77>>, suffix |-> <<24>>],
     [host |-> <<1, 2, 3, 128>>, suffix |-> <<25>>],
     [host |-> <<1, 2, 0, 0>>, suffix |-> <<16>>]}

InitGroup ==
    /\ config \in {[BaseConfig EXCEPT !.threshold_group_ips_into_subnets = t] :
                      t \in 1..MaxThreshold}
    /\ output_files = [p \in OutputPaths |-> NoFile]
    /\ pc = "group_call"
    /\ file_index = 1
    /\ unique_addresses = {}
    /\ valid_addresses \in {a \in SUBSET GroupLines : Cardinality(a) <= MaxGroupInput}
    /\ grouped_addresses = <<>>
    /\ existing_entries = <<>>
    /\ looked_up_addresses = <<>>
    /\ lookups = <<>>
    /\ entries = <<>>
    /\ sorted_entries = <<>>
    /\ call = NoCall
    /\ MainCleared
    /\ previous_call = NoPreviousCall
    /\ calls = 0

\* grouped_addresses = group_ips_into_subnets(valid_addresses, threshold)
GroupCall ==
    /\ pc = "group_call"
    /\ grouped_addresses' \in
           Orders(group_ips_into_subnets(valid_addresses, config.threshold_group_ips_into_subnets))
    /\ pc' = "grouped"
    /\ UNCHANGED <<config, output_files, file_index, unique_addresses, valid_addresses,
                   existing_entries, looked_up_addresses, lookups, entries,
                   sorted_entries, call, processed, results, totals, pushed,
                   previous_call, calls>>

SpecGroup == InitGroup /\ [][GroupCall]_vars

(***************************************************************************)
(* sort_entries_by_cidr on its own, and the file written from its result   *)
(***************************************************************************)
\* Keys of the dict: entries of several prefix lengths, two of them the same
\* network written differently.
SortKeys ==
    {[network_address |-> <<1, 2, 3, 0>>, prefixlen |-> 24],
     [network_address |-> <<1, 2, 3, 9>>, prefixlen |-> 24],
     [network_address |-> <<1, 2, 3, 1>>, prefixlen |-> 32],
     [network_address |-> <<1, 2, 4, 0>>, prefixlen |-> 24],
     [network_address |-> <<1, 2, 0, 0>>, prefixlen |-> 16],
     [network_address |-> <<0, 9, 9, 9>>, prefixlen |-> 32]}

SortComments == {<<>>, <<"x">>}

SortInputs ==
    UNION {{d \in [1..n -> [entry : SortKeys, comment : SortComments]] :
               \A i, j \in 1..n : d[i].entry = d[j].entry => i = j} : n \in 0..MaxSortLen}

InitSort ==
    /\ config = BaseConfig
    /\ output_files = [p \in OutputPaths |-> NoFile]
    /\ pc = "sort_call"
    /\ file_index = 1
    /\ unique_addresses = {}
    /\ valid_addresses = {}
    /\ grouped_addresses = <<>>
    /\ existing_entries = <<>>
    /\ looked_up_addresses = <<>>
    /\ lookups = <<>>
    /\ entries \in SortInputs
    /\ sorted_entries = <<>>
    /\ call = NoCall
    /\ MainCleared
    /\ previous_call = NoPreviousCall
    /\ calls = 0

\* sorted_entries = sort_entries_by_cidr(entries)
SortCall ==
    /\ pc = "sort_call"
    /\ sorted_entries' = sort_entries_by_cidr(entries)
    /\ pc' = "sorted"
    /\ UNCHANGED <<config, output_files, file_index, unique_addresses, valid_addresses,
                   grouped_addresses, existing_entries, looked_up_addresses, lookups,
                   entries, call, processed, results, totals, pushed, previous_call,
                   calls>>

\* The result is sorted once more.
SortAgain ==
    /\ pc = "sorted"
    /\ entries' = sorted_entries
    /\ sorted_entries' = sort_entries_by_cidr(sorted_entries)
    /\ pc' = "resorted"
    /\ UNCHANGED <<config, output_files, file_index, unique_addresses, valid_addresses,
                   grouped_addresses, existing_entries, looked_up_addresses, lookups,
                   call, processed, results, totals, pushed, previous_call, calls>>

\* success = write_to_output_file(sorted_entries, output_file_path, config)
WriteSorted ==
    /\ pc = "sorted"
    /\ LET written == write_to_output_file(sorted_entries, output_files[CurrentPath], config)
       IN  /\ output_files' = [output_files EXCEPT ![CurrentPath] = written.file]
           /\ call' = [NoCall EXCEPT !.success = written.success]
    /\ pc' = "written"
    /\ UNCHANGED <<config, file_index, unique_addresses, valid_addresses, grouped_addresses,
                   existing_entries, looked_up_addresses, lookups, entries,
                   sorted_entries, processed, results, totals, pushed, previous_call,
                   calls>>

NextSort ==
    \/ SortCall
    \/ SortAgain
    \/ WriteSorted

SpecSort == InitSort /\ [][NextSort]_vars


(***************************************************************************)
(* Properties                                                              *)
(***************************************************************************)
Threshold == config.threshold_group_ips_into_subnets

\* The first three octets of the text of a host line or of an entry.
PrefixOf(address) == SubSeq(address, 1, 3)

\* a <= b for tuples of numbers of one length, compared as Python compares tuples.
TupleLeq(a, b) ==
    \/ a = b
    \/ \E i \in 1..Len(a) : a[i] < b[i] /\ \A j \in 1..(i - 1) : a[j] = b[j]

\* (prefix length, network address) of an entry, as one tuple.
CidrKey(entry) == <<sort_key(entry).prefixlen>> \o sort_key(entry).network_address

\* The comment as it stands in a line of the output file, without "# " and newline.
RenderedComment(tail) == SubSeq(tail, 4, Len(tail) - 1)

EndsWithEllipsis(text) ==
    Len(text) >= 3 /\ SubSeq(text, Len(text) - 2, Len(text)) = Ellipsis

\* C1: when main() is done every configured file was processed, and
\* commit_and_push_changes was not called if process_lists returned failure for
\* any of the files, whatever its position in the list.
C1_NoPublishAfterAnyFailure ==
    pc = "done" =>
        /\ Len(results) = Len(config.input_files_to_process)
        /\ ((\E i \in 1..Len(results) : ~results[i]) => ~pushed)

\* C2: write_to_output_file returns failure and leaves the output file as it was
\* whenever the entry count exceeds fg_max_entries or the rendered size exceeds
\* fg_max_size_bytes; otherwise it returns success and the file holds the
\* rendered entries.
C2_LimitsRejectWithoutWriting ==
    pc = "return" =>
        LET rendered == RenderLines(sorted_entries, config)
            exceeded == \/ Len(sorted_entries) > config.fg_max_entries
                        \/ FileSize(rendered) > config.fg_max_size_bytes
        IN  IF exceeded
            THEN ~call.success /\ output_files[CurrentPath] = call.file_before
            ELSE call.success
                 /\ output_files[CurrentPath] = [exists |-> TRUE, lines |-> rendered]

\* C3: the entries written are the aggregated entries of the call, and an entry
\* whose registry lookup failed is among them with an empty comment.
C3_FailedLookupKeepsEntry ==
    pc = "return" =>
        /\ Keys(sorted_entries) = Range(grouped_addresses)
        /\ \A e \in DOMAIN lookups :
              ~lookups[e].ok => e \in Keys(sorted_entries) /\ Get(sorted_entries, e) = <<>>

\* C4: no line that is not an IP address or a CIDR subnet passes validation, so
\* every line that reaches group_ips_into_subnets parses there and the run is
\* never aborted by a line.
C4_InvalidLinesRejected ==
    /\ pc # "crashed"
    /\ \A a \in valid_addresses : IsIpNetwork(WithDefaultPrefix(a))

\* C5: with an explicit /24 in the input and at least `threshold` hosts of that
\* /24, the output holds the explicit subnet once and none of the host entries
\* it covers.
C5_ExplicitSubnetOnly ==
    pc = "grouped" =>
        /\ Len(grouped_addresses) = Cardinality(Range(grouped_addresses))
        /\ \A s \in valid_addresses :
              LET net == ip_network(WithDefaultPrefix(s))
                  hosts == {a \in valid_addresses :
                               /\ WithDefaultPrefix(a).suffix = <<32>>
                               /\ PrefixOf(a.host) = PrefixOf(net.network_address)}
              IN  (s.suffix = <<24>> /\ Cardinality(hosts) >= Threshold) =>
                      /\ net \in Range(grouped_addresses)
                      /\ ~\E e \in Range(grouped_addresses) :
                            /\ e.prefixlen = 32
                            /\ PrefixOf(e.network_address) = PrefixOf(net.network_address)

\* The input of C6: host addresses only, no host written twice.
HostsOnly ==
    /\ \A a \in valid_addresses : WithDefaultPrefix(a).suffix = <<32>>
    /\ \A a, b \in valid_addresses : a.host = b.host => a = b

MembersOf(prefix) == {a \in valid_addresses : PrefixOf(a.host) = prefix}

\* C6: on distinct IPv4 hosts without explicit subnets, a /24 with N >= threshold
\* hosts is in the output as the one entry "<prefix>.0/24" and none of its hosts is;
\* a /24 with N < threshold hosts is there as exactly its N hosts, each as a /32.
C6_ThresholdAggregation ==
    (pc = "grouped" /\ HostsOnly) =>
        /\ Len(grouped_addresses) = Cardinality(Range(grouped_addresses))
        /\ \A prefix \in {PrefixOf(a.host) : a \in valid_addresses} :
              LET inPrefix == {e \in Range(grouped_addresses) :
                                  PrefixOf(e.network_address) = prefix}
              IN  IF Cardinality(MembersOf(prefix)) >= Threshold
                  THEN inPrefix = {[network_address |-> prefix \o <<0>>, prefixlen |-> 24]}
                  ELSE /\ inPrefix = {[network_address |-> a.host, prefixlen |-> 32] :
                                         a \in MembersOf(prefix)}
                       /\ Cardinality(inPrefix) = Cardinality(MembersOf(prefix))

\* A /24 with exactly `threshold` hosts (two or more) next to one with fewer.
C6_Witness ==
    /\ pc = "grouped"
    /\ HostsOnly
    /\ Threshold >= 2
    /\ \E p, q \in {PrefixOf(a.host) : a \in valid_addresses} :
          /\ Cardinality(MembersOf(p)) = Threshold
          /\ Cardinality(MembersOf(q)) < Threshold

\* C7: an entry of the new set that the previous file annotates keeps that comment
\* and is not looked up; only added entries are looked up, and a found one gets the
\* comment found; no removed entry is in the map that is written; the counts
\* returned are the sizes of Added and Removed.
C7_MergeWithPreviousAnnotations ==
    pc = "return" =>
        LET new == Range(grouped_addresses)
            previous == Keys(existing_entries)
        IN  /\ \A e \in new \cap previous :
                  /\ e \in Keys(sorted_entries)
                  /\ Get(sorted_entries, e) = Get(existing_entries, e)
                  /\ e \notin DOMAIN lookups
            /\ DOMAIN lookups \subseteq new \ previous
            /\ \A e \in DOMAIN lookups :
                  lookups[e].ok =>
                      e \in Keys(sorted_entries) /\ Get(sorted_entries, e) = lookups[e].comment
            /\ Keys(sorted_entries) \cap (previous \ new) = {}
            /\ call.added = Cardinality(new \ previous)
            /\ call.removed = Cardinality(previous \ new)

\* A call with a kept, an added and a removed entry.
C7_Witness ==
    /\ pc = "return"
    /\ Range(grouped_addresses) \cap Keys(existing_entries) # {}
    /\ Range(grouped_addresses) \ Keys(existing_entries) # {}
    /\ Keys(existing_entries) \ Range(grouped_addresses) # {}

\* C8: sort_entries_by_cidr returns the items of its input in an order that does
\* not decrease in (prefix length, network address); sorting its result again
\* changes nothing; the output file lists the entries in that order.
C8_SortedByCidr ==
    /\ pc \in {"sorted", "resorted", "written"} =>
          /\ Len(sorted_entries) = Len(entries)
          /\ Range(sorted_entries) = Range(entries)
          /\ \A i, j \in 1..Len(sorted_entries) :
                i < j => TupleLeq(CidrKey(sorted_entries[i].entry),
                                  CidrKey(sorted_entries[j].entry))
    /\ pc = "resorted" => sorted_entries = entries
    /\ (pc = "written" /\ call.success) =>
          /\ Len(output_files[CurrentPath].lines) = Len(sorted_entries)
          /\ \A i \in 1..Len(sorted_entries) :
                output_files[CurrentPath].lines[i].entry = sorted_entries[i].entry

\* An input out of order, with two prefix lengths and two keys of one network,
\* sorted twice.
C8_Witness ==
    /\ pc = "resorted"
    /\ Len(entries) >= 3
    /\ \E i, j \in 1..Len(entries) :
          sort_key(entries[i].entry).prefixlen # sort_key(entries[j].entry).prefixlen
    /\ \E i, j \in 1..Len(entries) :
          i # j /\ sort_key(entries[i].entry) = sort_key(entries[j].entry)

\* C9: every comment in the written file is at most fg_max_comment_length
\* characters long; it is shortened, and then ends with "...", exactly when the
\* comment is longer than fg_max_comment_length.
C9_CommentWithinMaximum ==
    (pc = "return" /\ Len(sorted_entries) <= config.fg_max_entries) =>
        \A i \in 1..Len(sorted_entries) :
            LET comment == sorted_entries[i].comment
                rendered == RenderedComment(output_files[CurrentPath].lines[i].tail)
            IN  comment # <<>> =>
                    /\ Len(rendered) <= config.fg_max_comment_length
                    /\ (rendered # comment) <=> (Len(comment) > config.fg_max_comment_length)
                    /\ (rendered # comment) => EndsWithEllipsis(rendered)

\* C10: when process_lists returned success with every lookup answered and is
\* called again on the same input, config and output file, it reports nothing
\* added and nothing removed, looks nothing up and leaves the same output file.
C10_RerunChangesNothing ==
    (pc = "return" /\ previous_call.exists /\ previous_call.success
        /\ previous_call.all_found) =>
        /\ call.added = 0
        /\ call.removed = 0
        /\ DOMAIN lookups = {}
        /\ output_files[CurrentPath] = previous_call.file

=============================================================================
